---- MODULE Spec2Model ----
(***************************************************************************)
(* Blog content API: the four read-only operations of routes/api.js and    *)
(* the four route handlers of routes/index.js, over the "posts"            *)
(* collection of models/post.js.                                           *)
(*                                                                         *)
(* A request is handled in two steps of code separated by the storage      *)
(* query: the route handler (reads the clock, issues the query) and the    *)
(* exec callback (builds the envelope, calls the route's callback, which   *)
(* calls res.json).  The storage engine resolves each query in between,    *)
(* either with an error or with documents.                                 *)
(***************************************************************************)
EXTENDS Integers, Sequences, FiniteSets, TLC

\* ---------------------------------------------------------------- bounds
MaxPosts == 6
MaxTime == 3
LivePosts == 2

\* .limit(5) of getFiveNewestPosts
FiveLimit == 5

\* the requests in flight: two, so that every pair of operations interleaves
Requests == {"r1", "r2"}
\* publish dates of the stored posts
Times == 1..MaxTime
\* readings of moment().unix(): the last publish date and the second before
Nows == {MaxTime - 1, MaxTime}

\* ------------------------------------------------------- the collection
\* tags: Array.  Sample tag arrays; they differ in case, in order, in
\* repetition, and one is empty.
TagsOf(i) ==
    CASE i % 6 = 1 -> <<"js">>
      [] i % 6 = 2 -> <<"JS", "css">>
      [] i % 6 = 3 -> <<>>
      [] i % 6 = 4 -> <<"css", "js">>
      [] i % 6 = 5 -> <<"javascript">>
      [] OTHER     -> <<"js", "js">>

\* markdownContent: String.  Sample Markdown sources.
MarkdownOf(i) ==
    CASE i % 4 = 1 -> "# Hi"
      [] i % 4 = 2 -> "Hi"
      [] i % 4 = 3 -> "*Hi*"
      [] OTHER     -> ""

\* urlTitle: unique
UrlTitleOf(i) == "post-" \o ToString(i)

\* One document of the collection, as BlogPostSchema shapes it.  id, title
\* and urlTitle are unique, so they are functions of the document number.
BlogPost(i, ts) ==
    [ _id               |-> i,
      id                |-> "id-" \o ToString(i),
      title             |-> "Post " \o ToString(i),
      urlTitle          |-> UrlTitleOf(i),
      dateTimestamp     |-> ts,
      tags              |-> TagsOf(i),
      thumbnailImageUrl |-> "/assets/" \o ToString(i) \o ".png",
      markdownContent   |-> MarkdownOf(i),
      seoTitleTag       |-> "Post " \o ToString(i),
      seoMetaDescription |-> "About post " \o ToString(i) ]

\* Collections the model starts from: n documents in insertion order, the
\* publish dates non-decreasing in insertion order.
Collections ==
    UNION { { [i \in 1..n |-> BlogPost(i, ts[i])] :
                ts \in { f \in [1..n -> Times] :
                           \A i \in 1..n : \A j \in 1..n : i <= j => f[i] <= f[j] } } :
            n \in 0..MaxPosts }

\* ------------------------------------------------------ request inputs
\* req.query.tag
TagParams == {"js", "JS", "css"}
\* req.query.urlTitle
UrlTitleParams == {"post-1", "post-2", "no-such-post"}

\* ------------------------------------------------------- query helpers
SeqToSet(s) == { s[k] : k \in DOMAIN s }

\* { tags: tag }: an array field matches when one of its elements equals tag
TagMatches(doc, tag) == \E k \in DOMAIN doc.tags : doc.tags[k] = tag

\* the date filter left out
DateMatchesAlways(doc, now) == TRUE

\* $lt in place of $lte
DateMatchesStrict(doc, now) == doc.dateTimestamp < now

\* { dateTimestamp: { $lte: now } }
DateMatches(doc, now) == doc.dateTimestamp <= now

\* the projection "title urlTitle dateTimestamp tags thumbnailImageUrl"
\* (the driver keeps _id)
Project(doc) ==
    [ _id               |-> doc._id,
      title             |-> doc.title,
      urlTitle          |-> doc.urlTitle,
      dateTimestamp     |-> doc.dateTimestamp,
      tags              |-> doc.tags,
      thumbnailImageUrl |-> doc.thumbnailImageUrl ]

\* The order in which the engine returns documents of equal dateTimestamp is
\* not fixed by .sort({ dateTimestamp: -1 }): it is the engine's choice for
\* each query.  Two of the orders it can produce: by insertion order, forward
\* or backward.
TieOrders == {"forward", "backward"}

\* d1 is returned before d2 under sort { dateTimestamp: -1 } with tie order t
Before(d1, d2, t) ==
    \/ d1.dateTimestamp > d2.dateTimestamp
    \/ /\ d1.dateTimestamp = d2.dateTimestamp
       /\ IF t = "forward" THEN d1._id < d2._id ELSE d1._id > d2._id

RECURSIVE SortDesc(_, _)
SortDesc(docs, t) ==
    IF docs = {} THEN <<>>
    ELSE LET first == CHOOSE d \in docs : \A e \in docs \ {d} : Before(d, e, t)
         IN  <<first>> \o SortDesc(docs \ {first}, t)

\* .limit(n)
Limit(s, n) == IF Len(s) <= n THEN s ELSE SubSeq(s, 1, n)

\* the projection applied to every document of a result
ProjectAll(s) == [k \in DOMAIN s |-> Project(s[k])]

\* ------------------------------------------------- showdown's makeHtml
\* new showdown.Converter().makeHtml(text), on the sample sources and on its
\* own output (an HTML block passes through unchanged).
makeHtml(text) ==
    CASE text = "# Hi"  -> "<h1 id=\"hi\">Hi</h1>"
      [] text = "Hi"    -> "<p>Hi</p>"
      [] text = "*Hi*"  -> "<p><em>Hi</em></p>"
      [] OTHER          -> text

\* ---------------------------------------------------------------- state
VARIABLES
    store,    \* the posts collection: documents in insertion order
    pc,       \* per request: "idle", "querying", "resolved", "done"
    op,       \* per request: the Accessor operation its route calls
    param,    \* per request: req.query.tag / req.query.urlTitle ("" if none)
    now,      \* per request: moment().unix() read by the operation (0 if none)
    qerror,   \* per request: the error argument of the exec callback
    qdocs,    \* per request: the documents argument of the exec callback
    sent      \* per request: the bodies passed to res.json, in order

vars == <<store, pc, op, param, now, qerror, qdocs, sent>>

\* ------------------------------------------------------------- queries
\* BlogPostModel.find({ dateTimestamp: { $lte: now } }, projection)
\*     .sort({ dateTimestamp: -1 })
FindPublished(coll, n, t) ==
    ProjectAll(SortDesc({ d \in SeqToSet(coll) : DateMatches(d, n) }, t))

\* BlogPostModel.find({ tags: tag, dateTimestamp: { $lte: now } }, projection)
\*     .sort({ dateTimestamp: -1 })
FindPublishedByTag(coll, tag, n, t) ==
    ProjectAll(SortDesc({ d \in SeqToSet(coll) : TagMatches(d, tag) /\ DateMatches(d, n) }, t))

\* BlogPostModel.find({ dateTimestamp: { $lte: now } }, projection)
\*     .sort({ dateTimestamp: -1 }).limit(5)
FindFiveNewest(coll, n, t) ==
    ProjectAll(Limit(SortDesc({ d \in SeqToSet(coll) : DateMatches(d, n) }, t), FiveLimit))

\* findOne with the publish-date filter of the list operations
FindOnePublishedByUrlTitle(coll, urlTitle) ==
    LET hits == { d \in SeqToSet(coll) :
                    d.urlTitle = urlTitle /\ DateMatches(d, MaxTime - 1) }
    IN  IF hits = {} THEN <<>> ELSE <<CHOOSE d \in hits : TRUE>>

\* BlogPostModel.findOne({ urlTitle: urlTitle }): <<>> stands for null
FindOneByUrlTitle(coll, urlTitle) ==
    LET hits == { d \in SeqToSet(coll) : d.urlTitle = urlTitle }
    IN  IF hits = {} THEN <<>> ELSE <<CHOOSE d \in hits : TRUE>>

\* the tag kept in a binding shared by all calls: the query of r uses the
\* tag of whichever getBlogPostsByTag call was made
QueryResultsSharedTag(r) ==
    CASE op[r] = "getAllBlogPosts" ->
            { FindPublished(store, now[r], t) : t \in TieOrders }
      [] op[r] = "getBlogPostsByTag" ->
            { FindPublishedByTag(store, param[q], now[r], t) :
                t \in TieOrders, q \in { x \in Requests : op[x] = "getBlogPostsByTag" } }
      [] op[r] = "getFiveNewestPosts" ->
            { FindFiveNewest(store, now[r], t) : t \in TieOrders }
      [] OTHER ->
            { FindOneByUrlTitle(store, param[r]) }

\* the documents a successful query of request r can resolve with
QueryResults(r) ==
    CASE op[r] = "getAllBlogPosts" ->
            { FindPublished(store, now[r], t) : t \in TieOrders }
      [] op[r] = "getBlogPostsByTag" ->
            { FindPublishedByTag(store, param[r], now[r], t) : t \in TieOrders }
      [] op[r] = "getFiveNewestPosts" ->
            { FindFiveNewest(store, now[r], t) : t \in TieOrders }
      [] OTHER ->
            { FindOneByUrlTitle(store, param[r]) }

\* ------------------------------------------------------ exec callbacks
getAllBlogPostsCb(error, posts) ==
    IF error THEN [getDataError |-> TRUE]
    ELSE [success |-> TRUE, posts |-> posts]

getBlogPostsByTagCb(error, posts) ==
    IF error THEN [getDataError |-> TRUE]
    ELSE [success |-> TRUE, posts |-> posts]

getFiveNewestPostsCb(error, posts) ==
    IF error THEN [getdataError |-> TRUE]
    ELSE [success |-> TRUE, posts |-> posts]

\* the !post test made before the error test
getBlogPostByUrlTitleCbNullFirst(error, found) ==
    IF found = <<>> THEN [notFoundError |-> TRUE]
    ELSE IF error THEN [getDataError |-> TRUE]
    ELSE [success |-> TRUE,
          post |-> [found[1] EXCEPT !.markdownContent = makeHtml(@)]]

getBlogPostByUrlTitleCb(error, found) ==
    IF error THEN [getDataError |-> TRUE]
    ELSE IF found = <<>> THEN [notFoundError |-> TRUE]
    ELSE [success |-> TRUE,
          post |-> [found[1] EXCEPT !.markdownContent = makeHtml(@)]]

\* the envelope the operation o passes to its callback
Envelope(o, error, docs) ==
    CASE o = "getAllBlogPosts"    -> getAllBlogPostsCb(error, docs)
      [] o = "getBlogPostsByTag"  -> getBlogPostsByTagCb(error, docs)
      [] o = "getFiveNewestPosts" -> getFiveNewestPostsCb(error, docs)
      [] OTHER                    -> getBlogPostByUrlTitleCb(error, docs)

\* post.save() after the rendering: the HTML replaces the stored Markdown
StoreAfterCallbackSaved(r) ==
    IF op[r] = "getBlogPostByUrlTitle" /\ ~qerror[r] /\ qdocs[r] # <<>>
    THEN [i \in DOMAIN store |->
            IF store[i]._id = qdocs[r][1]._id
            THEN [store[i] EXCEPT !.markdownContent = makeHtml(@)]
            ELSE store[i]]
    ELSE store

\* what the exec callbacks write back to the collection: nothing (the
\* rendered post is never saved)
StoreAfterCallback(r) == store

\* ----------------------------------------------------------------- Init
Init ==
    /\ store \in Collections
    /\ pc = [r \in Requests |-> "idle"]
    /\ op = [r \in Requests |-> ""]
    /\ param = [r \in Requests |-> ""]
    /\ now = [r \in Requests |-> 0]
    /\ qerror = [r \in Requests |-> FALSE]
    /\ qdocs = [r \in Requests |-> <<>>]
    /\ sent = [r \in Requests |-> <<>>]

\* -------------------------------------------------------- route handlers
\* the operation reads the clock (if it filters by date) and issues the query
Issue(r, o, p, n) ==
    /\ pc[r] = "idle"
    /\ pc' = [pc EXCEPT ![r] = "querying"]
    /\ op' = [op EXCEPT ![r] = o]
    /\ param' = [param EXCEPT ![r] = p]
    /\ now' = [now EXCEPT ![r] = n]
    /\ UNCHANGED <<store, qerror, qdocs, sent>>

\* GET /posts/get-all-blog-posts
GetAllBlogPostsRoute(r) ==
    \E n \in Nows : Issue(r, "getAllBlogPosts", "", n)

\* GET /posts/get-blog-posts-by-tag
GetBlogPostsByTagRoute(r) ==
    \E tag \in TagParams : \E n \in Nows : Issue(r, "getBlogPostsByTag", tag, n)

\* GET /posts/get-five-newest-posts
GetFiveNewestPostsRoute(r) ==
    \E n \in Nows : Issue(r, "getFiveNewestPosts", "", n)

\* GET /posts/get-blog-post-by-url-title
GetBlogPostByUrlTitleRoute(r) ==
    \E u \in UrlTitleParams : Issue(r, "getBlogPostByUrlTitle", u, 0)

\* ------------------------------------------------------- storage engine
\* the query of request r resolves with an error
QueryFail(r) ==
    /\ pc[r] = "querying"
    /\ pc' = [pc EXCEPT ![r] = "resolved"]
    /\ qerror' = [qerror EXCEPT ![r] = TRUE]
    /\ UNCHANGED <<store, op, param, now, qdocs, sent>>

\* the query of request r resolves with documents
QuerySucceed(r) ==
    /\ pc[r] = "querying"
    /\ \E docs \in QueryResults(r) : qdocs' = [qdocs EXCEPT ![r] = docs]
    /\ pc' = [pc EXCEPT ![r] = "resolved"]
    /\ UNCHANGED <<store, op, param, now, qerror, sent>>

\* the callback invoked a second time after the first
ExecCallbackTwice(r) ==
    /\ pc[r] = "resolved"
    /\ sent' = [sent EXCEPT ![r] = @ \o << Envelope(op[r], qerror[r], qdocs[r]),
                                          Envelope(op[r], qerror[r], qdocs[r]) >>]
    /\ store' = StoreAfterCallback(r)
    /\ pc' = [pc EXCEPT ![r] = "done"]
    /\ UNCHANGED <<op, param, now, qerror, qdocs>>

\* --------------------------------------------------------- exec callback
\* function (error, posts) { ... callback(envelope) } and, inside callback,
\* res.json(apiResponse)
ExecCallback(r) ==
    /\ pc[r] = "resolved"
    /\ sent' = [sent EXCEPT ![r] = Append(@, Envelope(op[r], qerror[r], qdocs[r]))]
    /\ store' = StoreAfterCallback(r)
    /\ pc' = [pc EXCEPT ![r] = "done"]
    /\ UNCHANGED <<op, param, now, qerror, qdocs>>

Next ==
    \E r \in Requests :
        \/ GetAllBlogPostsRoute(r)
        \/ GetBlogPostsByTagRoute(r)
        \/ GetFiveNewestPostsRoute(r)
        \/ GetBlogPostByUrlTitleRoute(r)
        \/ QueryFail(r)
        \/ QuerySucceed(r)
        \/ ExecCallback(r)

Spec == Init /\ [][Next]_vars

\* The event loop runs every exec callback whose query has resolved.  Whether
\* a callback runs does not depend on what the collection holds, so progress
\* is checked over the collections of at most LivePosts documents.
InitLive == Init /\ Len(store) <= LivePosts

FairSpec ==
    InitLive /\ [][Next]_vars /\ \A r \in Requests : WF_vars(ExecCallback(r))

\* ------------------------------------------------- vocabulary of claims
ListOps == {"getAllBlogPosts", "getBlogPostsByTag", "getFiveNewestPosts"}

Done(r) == pc[r] = "done" /\ Len(sent[r]) >= 1
\* the response body of a request that is done
Body(r) == sent[r][1]
Succeeded(r) == Done(r) /\ "success" \in DOMAIN Body(r)
Has(r, o) == Done(r) /\ op[r] = o

StoredDocs == SeqToSet(store)
Ids(s) == { s[k]._id : k \in DOMAIN s }
IsPrefix(s, t) == Len(s) <= Len(t) /\ \A k \in DOMAIN s : s[k] = t[k]

\* ------------------------------------------------------------------- C1
\* C1: a list operation that completes with a success envelope returns no
\* post whose dateTimestamp is later than the clock value its query read.
C1_NoFuturePostInLists ==
    \A r \in Requests :
        (Succeeded(r) /\ op[r] \in ListOps) =>
            \A k \in DOMAIN Body(r).posts : Body(r).posts[k].dateTimestamp <= now[r]

C1_Witness ==
    \E r \in Requests :
        /\ Succeeded(r) /\ op[r] \in ListOps
        /\ Body(r).posts # <<>>
        /\ \E d \in StoredDocs : d.dateTimestamp > now[r]

\* ------------------------------------------------------------------- C2
\* C2: when the storage query fails, each of the four operations passes
\* exactly { getDataError: true } to its callback.
C2_StorageFailureEnvelope ==
    \A r \in Requests :
        (Done(r) /\ qerror[r]) => Body(r) = [getDataError |-> TRUE]

\* ------------------------------------------------------------------- C3
\* C3: for the same collection and clock value, the posts of a successful
\* getFiveNewestPosts are at most 5 and a prefix of the posts of a
\* successful getAllBlogPosts, ties in dateTimestamp included.
C3_FiveIsPrefixOfAll ==
    \A r1 \in Requests : \A r2 \in Requests :
        ( /\ Succeeded(r1) /\ op[r1] = "getFiveNewestPosts"
          /\ Succeeded(r2) /\ op[r2] = "getAllBlogPosts"
          /\ now[r1] = now[r2] ) =>
            /\ Len(Body(r1).posts) <= 5
            /\ IsPrefix(Body(r1).posts, Body(r2).posts)

\* ------------------------------------------------------------------- C4
\* C4: for the same collection and clock value, the posts of a successful
\* getBlogPostsByTag(t) are the posts of getAllBlogPosts whose tags contain
\* t, in the same relative order.
C4_ByTagIsFilteredAll ==
    \A r1 \in Requests : \A r2 \in Requests :
        ( /\ Succeeded(r1) /\ op[r1] = "getBlogPostsByTag"
          /\ Succeeded(r2) /\ op[r2] = "getAllBlogPosts"
          /\ now[r1] = now[r2] ) =>
            LET HasTag(p) == \E k \in DOMAIN p.tags : p.tags[k] = param[r1]
            IN  Body(r1).posts = SelectSeq(Body(r2).posts, HasTag)

\* ------------------------------------------------------------------- C5
\* C5: getBlogPostByUrlTitle(u) whose query does not fail returns
\* { success: true, post } for the stored post with urlTitle u whatever its
\* dateTimestamp.
C5_ByUrlTitleIgnoresPublishDate ==
    \A r \in Requests :
        (Has(r, "getBlogPostByUrlTitle") /\ ~qerror[r]) =>
            \A d \in StoredDocs :
                d.urlTitle = param[r] =>
                    /\ DOMAIN Body(r) = {"success", "post"}
                    /\ Body(r).success = TRUE
                    /\ Body(r).post._id = d._id
                    /\ Body(r).post.urlTitle = param[r]
                    /\ Body(r).post.dateTimestamp = d.dateTimestamp

\* a future-dated post fetched by urlTitle while getAllBlogPosts on the same
\* collection leaves it out
C5_Witness ==
    \E r1 \in Requests : \E r2 \in Requests :
        /\ Succeeded(r1) /\ op[r1] = "getBlogPostByUrlTitle"
        /\ Succeeded(r2) /\ op[r2] = "getAllBlogPosts"
        /\ Body(r1).post.dateTimestamp > now[r2]
        /\ Body(r1).post._id \notin Ids(Body(r2).posts)
        /\ Body(r2).posts # <<>>

\* ------------------------------------------------------------------- C6
\* C6: getBlogPostByUrlTitle(u) delivers exactly one of three envelopes:
\* { getDataError } iff the query failed, { notFoundError } iff it succeeded
\* and no stored post has urlTitle u, { success, post } iff it succeeded and
\* such a post exists, post being that post with markdownContent rendered.
C6_ByUrlTitleThreeOutcomes ==
    \A r \in Requests :
        Has(r, "getBlogPostByUrlTitle") =>
            LET hits == { d \in StoredDocs : d.urlTitle = param[r] }
                b == Body(r)
            IN  /\ DOMAIN b \in { {"getDataError"}, {"notFoundError"}, {"success", "post"} }
                /\ "getDataError" \in DOMAIN b <=> qerror[r]
                /\ "notFoundError" \in DOMAIN b <=> (~qerror[r] /\ hits = {})
                /\ "success" \in DOMAIN b <=> (~qerror[r] /\ hits # {})
                /\ "getDataError" \in DOMAIN b => b.getDataError = TRUE
                /\ "notFoundError" \in DOMAIN b => b.notFoundError = TRUE
                /\ "success" \in DOMAIN b =>
                      /\ b.success = TRUE
                      /\ \E d \in hits :
                            b.post = [d EXCEPT !.markdownContent = makeHtml(d.markdownContent)]

\* one lookup answered with the storage failure, another with a post whose
\* rendering differs from its source
C6_Witness ==
    \E r1 \in Requests : \E r2 \in Requests :
        /\ Has(r1, "getBlogPostByUrlTitle") /\ Has(r2, "getBlogPostByUrlTitle")
        /\ qerror[r1] /\ qdocs[r1] = <<>>
        /\ Succeeded(r2)
        /\ \E d \in StoredDocs :
              d.urlTitle = param[r2] /\ Body(r2).post.markdownContent # d.markdownContent

\* ------------------------------------------------------------------- C7
\* C7: for each request the callback fires, and the response is sent,
\* exactly once and only after the query resolved: nothing is sent before
\* the exec callback runs, and one body has been sent once it has run.
C7_CallbackExactlyOnce ==
    \A r \in Requests :
        /\ pc[r] \in {"idle", "querying", "resolved"} => sent[r] = <<>>
        /\ pc[r] = "done" => Len(sent[r]) = 1

\* under the event loop's fairness, a resolved query is answered
C7_CallbackExactlyOnceAndFires ==
    /\ []C7_CallbackExactlyOnce
    /\ \A r \in Requests : (pc[r] = "resolved") ~> (pc[r] = "done")

C7_Witness ==
    \E r1 \in Requests : \E r2 \in Requests :
        /\ pc[r1] = "done" /\ Len(sent[r1]) = 1
        /\ pc[r2] = "resolved" /\ sent[r2] = <<>>

C9_SameLookupSamePost ==
    \A r1 \in Requests : \A r2 \in Requests :
        ( /\ Succeeded(r1) /\ op[r1] = "getBlogPostByUrlTitle"
          /\ Succeeded(r2) /\ op[r2] = "getBlogPostByUrlTitle"
          /\ param[r1] = param[r2] ) =>
            /\ Body(r1) = Body(r2)
            /\ \E d \in StoredDocs :
                  /\ d.urlTitle = param[r1]
                  /\ Body(r1).post.markdownContent = makeHtml(d.markdownContent)

C9_StoreNeverWritten == [][store' = store]_vars /\ []C9_SameLookupSamePost

\* the same post looked up twice, its rendering different from its source
C9_Witness ==
    \E r1 \in Requests : \E r2 \in Requests :
        /\ r1 # r2
        /\ Succeeded(r1) /\ op[r1] = "getBlogPostByUrlTitle"
        /\ Succeeded(r2) /\ op[r2] = "getBlogPostByUrlTitle"
        /\ param[r1] = param[r2]
        /\ \E d \in StoredDocs :
              d.urlTitle = param[r1] /\ Body(r1).post.markdownContent # d.markdownContent

\* ------------------------------------------------------------------ C10
\* C10: the body each request receives is the envelope of its own operation
\* on its own parameter and clock reading, untransformed, whatever the other
\* request is doing.
OwnEnvelopes(r) ==
    IF qerror[r]
    THEN { IF op[r] = "getFiveNewestPosts" THEN [getdataError |-> TRUE]
           ELSE [getDataError |-> TRUE] }
    ELSE CASE op[r] = "getAllBlogPosts" ->
                { [success |-> TRUE, posts |-> FindPublished(store, now[r], t)] :
                    t \in TieOrders }
           [] op[r] = "getBlogPostsByTag" ->
                { [success |-> TRUE, posts |-> FindPublishedByTag(store, param[r], now[r], t)] :
                    t \in TieOrders }
           [] op[r] = "getFiveNewestPosts" ->
                { [success |-> TRUE, posts |-> FindFiveNewest(store, now[r], t)] :
                    t \in TieOrders }
           [] OTHER ->
                { getBlogPostByUrlTitleCb(FALSE, FindOneByUrlTitle(store, param[r])) }

C10_OwnEnvelopeRelayed ==
    \A r \in Requests : Done(r) => (sent[r] = <<Body(r)>> /\ Body(r) \in OwnEnvelopes(r))

\* two requests to the same route with different parameters, answered
\* differently
C10_Witness ==
    \E r1 \in Requests : \E r2 \in Requests :
        /\ Succeeded(r1) /\ Succeeded(r2)
        /\ op[r1] = "getBlogPostsByTag" /\ op[r2] = "getBlogPostsByTag"
        /\ param[r1] # param[r2]
        /\ Body(r1) # Body(r2)
        /\ Body(r1).posts # <<>> /\ Body(r2).posts # <<>>

====
